---- MODULE Spec2Model ----
(***************************************************************************)
(* Scan-and-reconcile pipeline of the media scanner (src/src/scanner.ts):  *)
(* the watcher's event stream consumed through concatMap, the per-file     *)
(* handler (scanFile / removal), the two probes, and the start-up sweep    *)
(* cleanDeleted, all working on one catalog with revision-checked writes.  *)
(***************************************************************************)
EXTENDS Integers, Sequences, FiniteSets, TLC

\* ------------------------------------------------------------------ bounds
\* Number of events the watcher emits in a behaviour.
MaxEvents == 2
\* Longest stream list ffprobe reports.
MaxStreams == 3

\* --------------------------------------------------------------- constants
\* Page size of the sweep (scanner.ts:63 sets 256; scaled so that a catalog of
\* three entries spans several pages).
limit == 2
\* A field the placeholder of scanner.ts:121 leaves undefined.
NoRun == -1
\* Generation tag of the fields of an entry written before this process started
\* (the handler of the n-th event tags what it generates with n >= 1).
PriorRun == NoRun + 1

\* Paths are sequences of path segments; the last segment is the extension.
ScanRoot == <<"media">>
P1 == <<"media", "a", "mov">>
P2 == <<"media", "a", "png">>
P3 == <<"media", "b", "mov">>
PO == <<"old", "c", "mov">>
NoPath == <<>>

WatchedPaths == {P1, P2, P3, ScanRoot}
StoredPaths == {P1, P2, P3, PO}
Ids == {"A", "B", "C"}

\* config.metadata: null ("null"), set with fieldOrder off ("nofo") or on ("fo").
MetadataConfigs == {"null", "nofo", "fo"}

\* fs.Stats values <<size, mtime>> the watcher reports.
Stats == {<<0, 0>>, <<1, 0>>}

\* What the watcher can emit: [path, kind, size, mtime]; kind "dir" is a stat
\* whose isDirectory() is true, kind "unlink" carries no stat.
EventInputs ==
    {[path |-> P1, kind |-> "file", size |-> s[1], mtime |-> s[2], seq |-> 0] : s \in Stats}
    \cup {[path |-> P2, kind |-> "file", size |-> 1, mtime |-> 0, seq |-> 0],
          [path |-> P3, kind |-> "dir", size |-> 0, mtime |-> 0, seq |-> 0],
          [path |-> ScanRoot, kind |-> "file", size |-> 1, mtime |-> 0, seq |-> 0]}
    \cup {[path |-> p, kind |-> "unlink", size |-> 0, mtime |-> 0, seq |-> 0] : p \in {P1, P2}}

\* util.getId(config.paths.media, path): the root-relative name without its
\* extension; the root itself has the empty id.
getId(p) ==
    IF p = ScanRoot \/ p = NoPath THEN ""
    ELSE IF p[2] = "a" THEN "A"
    ELSE IF p[2] = "b" THEN "B"
    ELSE "C"

\* Collation of the store's keys (allDocs lists in key order).
Rank(id) == IF id = "A" THEN 1 ELSE IF id = "B" THEN 2 ELSE 3

\* String.prototype.startsWith on normalized paths.
startsWith(p, prefix) ==
    /\ Len(p) >= Len(prefix)
    /\ \A i \in 1..Len(prefix) : p[i] = prefix[i]

\* ------------------------------------------------------------------- state
VARIABLES
    catalog,    \* the store: id -> entry (exists, rev and the document's fields)
    metadata,   \* config.metadata: "null" | "nofo" (fieldOrder off) | "fo" (fieldOrder on)
    queue,      \* events emitted by the watcher and buffered by concatMap
    emitted,    \* number of events emitted so far
    active,     \* the handlers between their start and their completion
    started,    \* sequence number of the event whose handler started last
    last,       \* the handler that completed last, with its outcome
    sweep,      \* cleanDeleted: pc, startkey, rows, pending, deleted; and the ids
                \* whose stat found a regular file (sawFile) or did not (sawOther),
                \* the ids listed so far and the page's delete requests
    fs,         \* the watched files, where a specification tracks them: their
                \* stat, and what the watcher has yet to report
    cinfRun     \* one call of generateCinf: the stream list, the loop's position
                \* and the locals audioTb, videoTb, stillTb, type, tb

vars == <<catalog, metadata, queue, emitted, active, started, last, sweep, fs, cinfRun>>

\* The placeholder of scanner.ts:121; every other field is undefined.
Placeholder ==
    [rev |-> 0, mediaPath |-> NoPath, mediaSize |-> 0, mediaTime |-> 0,
     cinf |-> NoRun, cinfTT |-> NoRun, mediainfo |-> NoRun,
     thumbTime |-> NoRun, tinf |-> NoRun, thumb |-> NoRun]

DocFields == DOMAIN Placeholder

\* A deleted (or never written) entry; the store keeps the revision counter.
\* orig: the entry has been in the store without interruption since start-up.
Absent(rev) ==
    [exists |-> FALSE, doc |-> [Placeholder EXCEPT !.rev = rev], orig |-> FALSE]

\* An entry left in the store by an earlier run of the process.
PriorDoc(p, size, mtime) ==
    [rev |-> 1, mediaPath |-> p, mediaSize |-> size, mediaTime |-> mtime,
     cinf |-> PriorRun, cinfTT |-> PriorRun, mediainfo |-> PriorRun,
     thumbTime |-> PriorRun, tinf |-> PriorRun, thumb |-> PriorRun]

PriorEntries(id) ==
    {Absent(0)} \cup
    (IF id = "A" THEN {[exists |-> TRUE, doc |-> PriorDoc(P1, 1, 0), orig |-> TRUE]}
     ELSE IF id = "B" THEN {[exists |-> TRUE, doc |-> PriorDoc(P3, 1, 1), orig |-> TRUE]}
     ELSE {[exists |-> TRUE, doc |-> PriorDoc(PO, 1, 0), orig |-> TRUE]})

\* ------------------------------------------------------------------- store
\* db.get(id): the document, or a rejection when there is none.
dbHas(id) == id \in Ids /\ catalog[id].exists

\* db.put(doc): accepted when doc's revision is the current one, or is the
\* sentinel and no entry exists; the store then assigns the next revision.
putAccepted(id, doc) ==
    /\ id \in Ids
    /\ IF catalog[id].exists THEN doc.rev = catalog[id].doc.rev ELSE doc.rev = 0

afterPut(id, doc) ==
    [catalog EXCEPT ![id] =
        [exists |-> TRUE, doc |-> [doc EXCEPT !.rev = catalog[id].doc.rev + 1],
         orig |-> catalog[id].orig]]

\* db.remove(doc) and one {_deleted: true} item of db.bulkDocs.
removeAccepted(id, rev) ==
    id \in Ids /\ catalog[id].exists /\ catalog[id].doc.rev = rev

afterRemove(cat, id) == [cat EXCEPT ![id] = Absent(cat[id].doc.rev + 1)]

\* ---------------------------------------------------------------- handlers
NoHandler ==
    [seq |-> 0, path |-> NoPath, kind |-> "none", size |-> 0, mtime |-> 0,
     pc |-> "done", outcome |-> "none", fetched |-> Placeholder, doc |-> Placeholder,
     info |-> "idle", thumb |-> "idle", probes |-> {}, writes |-> 0,
     prevPath |-> NoPath, prevKind |-> "none"]

\* cleanDeleted before its first page. listed: the ids some page has listed;
\* requests: the batched delete requests issued for the page listed last.
NoSweep ==
    [pc |-> "list", startkey |-> "", rows |-> <<>>, pending |-> {}, deleted |-> {},
     sawFile |-> {}, sawOther |-> {}, listed |-> {}, requests |-> 0]

\* The files are not tracked: every stat result is an input of the step.
Unwatched == [files |-> <<>>, dirty |-> {}, known |-> {}]

\* No call of generateCinf is in progress.
NoCinfRun ==
    [streams |-> <<>>, pos |-> 0, audioTb |-> <<>>, videoTb |-> <<>>, stillTb |-> <<>>,
     type |-> "", tb |-> <<>>]

Init ==
    /\ catalog \in [Ids -> UNION {PriorEntries(id) : id \in Ids}]
    /\ \A id \in Ids : catalog[id] \in PriorEntries(id)
    /\ metadata \in MetadataConfigs
    /\ queue = <<>>
    /\ emitted = 0
    /\ active = {}
    /\ started = 0
    /\ last = NoHandler
    /\ sweep = NoSweep
    /\ fs = Unwatched
    /\ cinfRun = NoCinfRun

\* ----------------------------------------------------------------- watcher
\* chokidar's 'add' / 'change' / 'unlink' callbacks: o.next([path, stat]).
WatcherEmit(e) ==
    /\ emitted < MaxEvents
    /\ emitted' = emitted + 1
    /\ queue' = Append(queue, [e EXCEPT !.seq = emitted + 1])
    /\ UNCHANGED <<catalog, metadata, active, started, last, sweep, cinfRun>>

\* ------------------------------------------------------- the event handler
\* mergeMap in place of concatMap: the next handler starts at once.
CanSubscribeMerge == TRUE

\* concatMap subscribes to the next inner observable only when the previous
\* one has completed.
CanSubscribe == active = {}

FailureOutcomes == {"put_failed", "get_failed", "not_found", "remove_failed"}

\* Without the try/catch of lines 47-55 a rejection errors the stream: the
\* handler never completes and concatMap subscribes to nothing more.
CompleteUncaught(h, final, outcome) ==
    IF outcome \in FailureOutcomes
    THEN /\ active' = (active \ {h}) \cup {[final EXCEPT !.pc = "errored"]}
         /\ last' = last
    ELSE /\ active' = active \ {h}
         /\ last' = [final EXCEPT !.pc = "done", !.outcome = outcome]

\* The handler h settles in the state `final` (its promise resolves; a throw
\* was caught at line 53).
Complete(h, final, outcome) ==
    /\ active' = active \ {h}
    /\ last' = [final EXCEPT !.pc = "done", !.outcome = outcome]

Update(h, h2) == active' = (active \ {h}) \cup {h2}

\* Lines 45-52 and 114-120: the handler starts, up to its first await.
Subscribe ==
    /\ queue # <<>>
    /\ CanSubscribe
    /\ LET e == Head(queue)
           h == [NoHandler EXCEPT !.seq = e.seq, !.path = e.path, !.kind = e.kind,
                                  !.size = e.size, !.mtime = e.mtime,
                                  !.prevPath = last.path, !.prevKind = last.kind]
       IN  /\ queue' = Tail(queue)
           /\ started' = e.seq
           /\ IF e.kind = "unlink"
              THEN /\ active' = active \cup {[h EXCEPT !.pc = "rm_get"]}
                   /\ last' = last
              ELSE IF getId(e.path) = "" \/ e.kind = "dir"
              THEN /\ active' = active
                   /\ last' = [h EXCEPT !.outcome = "ignored"]
              ELSE /\ active' = active \cup {[h EXCEPT !.pc = "get"]}
                   /\ last' = last
    /\ UNCHANGED <<catalog, metadata, emitted, sweep, fs, cinfRun>>

\* The ids compared where the paths should be.
isCollisionById(doc, mediaPath) ==
    doc.mediaPath # NoPath /\ getId(doc.mediaPath) # getId(mediaPath)

\* Line 130: the entry belongs to another path.
isCollision(doc, mediaPath) == doc.mediaPath # NoPath /\ doc.mediaPath # mediaPath

\* mediaTime compared with the Date object, not its getTime(): never equal.
isUnchangedDate(doc, size, mtime) == doc.mediaSize = size /\ FALSE

\* Line 135: the fingerprint of the entry is the event's.
isUnchanged(doc, size, mtime) == doc.mediaSize = size /\ doc.mediaTime = mtime

\* Lines 119-150: db.get settles (ok = FALSE: it rejects although the entry may
\* exist), the two guards, the stat fields, and both probes are started.
ScanGet(h, ok) ==
    /\ h.pc = "get"
    /\ LET id == getId(h.path)
           doc == IF ok /\ dbHas(id) THEN catalog[id].doc ELSE Placeholder
           h1 == [h EXCEPT !.fetched = doc, !.doc = doc]
       IN  IF isCollision(doc, h.path) THEN Complete(h, h1, "skipped")
           ELSE IF isUnchanged(doc, h.size, h.mtime) THEN Complete(h, h1, "unchanged")
           ELSE /\ Update(h, [h1 EXCEPT !.doc.mediaPath = h.path,
                                        !.doc.mediaSize = h.size,
                                        !.doc.mediaTime = h.mtime,
                                        !.pc = "probing",
                                        !.info = "running", !.thumb = "running",
                                        !.probes = {"info", "thumb"}])
                /\ last' = last
    /\ UNCHANGED <<catalog, metadata, queue, emitted, started, sweep, fs, cinfRun>>

\* Lines 225 and 273-282: the cinf of this run; it embeds doc.thumbTime as it
\* is when generateCinf runs.
withCinf(doc, run) == [doc EXCEPT !.cinf = run, !.cinfTT = doc.thumbTime]

\* Lines 198-230 and 285-324: ffprobe settles (res = "fail": it exits non-zero or
\* reports no stream), then cinf, then mediainfo with the field-order probe
\* (res = "fo_fail": that probe exits non-zero).
InfoDone(h, res) ==
    /\ h.pc = "probing" /\ h.info = "running"
    /\ res = "fo_fail" => metadata = "fo"
    /\ LET d1 == withCinf(h.doc, h.seq)
           fo == IF metadata = "fo" THEN {"fo"} ELSE {}
       IN  IF res = "fail"
           THEN Update(h, [h EXCEPT !.info = "failed"])
           ELSE IF res = "fo_fail"
           THEN Update(h, [h EXCEPT !.doc = d1, !.info = "fo_failed",
                                    !.probes = h.probes \cup fo])
           ELSE Update(h, [h EXCEPT
                    !.doc = IF metadata = "null" THEN d1
                            ELSE [d1 EXCEPT !.mediainfo = h.seq],
                    !.info = "ok", !.probes = h.probes \cup fo])
    /\ UNCHANGED <<catalog, metadata, queue, emitted, started, last, sweep, fs, cinfRun>>

\* Lines 178-187: thumbSize, thumbTime and tinf from the stat of the output.
thumbStatted(doc, run) == [doc EXCEPT !.thumbTime = run, !.tinf = run]

\* The attachment is not stored on the document.
thumbReadDropped(doc, run) == doc

\* Lines 189-194: the attachment read from the output.
thumbRead(doc, run) == [doc EXCEPT !.thumb = run]

\* Lines 157-196: res = "fail_exec": mkdirp, ffmpeg or the stat of its output
\* rejects; "fail_read": readFile rejects; "fail_unlink": unlink rejects.
ThumbDone(h, res) ==
    /\ h.pc = "probing" /\ h.thumb = "running"
    /\ LET d1 == thumbStatted(h.doc, h.seq)
           d2 == thumbRead(d1, h.seq)
       IN  Update(h, [h EXCEPT
               !.doc = IF res = "fail_exec" THEN h.doc
                       ELSE IF res = "fail_read" THEN d1 ELSE d2,
               !.thumb = IF res = "ok" THEN "ok" ELSE "failed"])
    /\ UNCHANGED <<catalog, metadata, queue, emitted, started, last, sweep, fs, cinfRun>>

\* The write waits for the first probe to settle, not for both.
probesJoinedAny(h) == h.info # "running" \/ h.thumb # "running"

\* Line 143: Promise.all settles when both probes have settled.
probesJoined(h) == h.info # "running" /\ h.thumb # "running"

\* Lines 152-154: db.put(doc) settles (ok = FALSE: the store fails).
ScanPut(h, ok) ==
    /\ h.pc = "probing"
    /\ probesJoined(h)
    /\ LET id == getId(h.path)
           h1 == [h EXCEPT !.writes = h.writes + 1]
       IN  IF ok /\ putAccepted(id, h.doc)
           THEN /\ catalog' = afterPut(id, h.doc)
                /\ Complete(h, h1, "written")
           ELSE /\ catalog' = catalog
                /\ Complete(h, h1, "put_failed")
    /\ UNCHANGED <<metadata, queue, emitted, started, sweep, fs, cinfRun>>

\* Line 49, inner await: db.get(mediaId).
RemoveGet(h, ok) ==
    /\ h.pc = "rm_get"
    /\ LET id == getId(h.path)
       IN  IF ok /\ dbHas(id)
           THEN /\ Update(h, [h EXCEPT !.fetched = catalog[id].doc,
                                       !.doc = catalog[id].doc, !.pc = "rm_remove"])
                /\ last' = last
           ELSE Complete(h, h, IF dbHas(id) THEN "get_failed" ELSE "not_found")
    /\ UNCHANGED <<catalog, metadata, queue, emitted, started, sweep, fs, cinfRun>>

\* db.remove not awaited: the handler completes without the removal applied.
RemoveDocUnawaited(h, ok) ==
    /\ h.pc = "rm_remove"
    /\ catalog' = catalog
    /\ Complete(h, [h EXCEPT !.writes = h.writes + 1], "removed")
    /\ UNCHANGED <<metadata, queue, emitted, started, sweep, fs, cinfRun>>

\* Line 49, outer await: db.remove(doc).
RemoveDoc(h, ok) ==
    /\ h.pc = "rm_remove"
    /\ LET id == getId(h.path)
           h1 == [h EXCEPT !.writes = h.writes + 1]
       IN  IF ok /\ removeAccepted(id, h.doc.rev)
           THEN /\ catalog' = afterRemove(catalog, id)
                /\ Complete(h, h1, "removed")
           ELSE /\ catalog' = catalog
                /\ Complete(h, h1, "remove_failed")
    /\ UNCHANGED <<metadata, queue, emitted, started, sweep, fs, cinfRun>>

\* ------------------------------------------------------------------- sweep
RECURSIVE inKeyOrder(_)
inKeyOrder(S) ==
    IF S = {} THEN <<>>
    ELSE LET first == CHOOSE id \in S : \A other \in S : Rank(id) <= Rank(other)
         IN  <<first>> \o inKeyOrder(S \ {first})

\* db.allDocs({include_docs, startkey, limit}): the first `limit` entries in key
\* order from startkey on, startkey included.
allDocs(startkey) ==
    LET from == IF startkey = "" THEN 0 ELSE Rank(startkey)
        keys == inKeyOrder({id \in Ids : catalog[id].exists /\ Rank(id) >= from})
        n == IF Len(keys) < limit THEN Len(keys) ELSE limit
    IN  [i \in 1..n |-> [id |-> keys[i], rev |-> catalog[keys[i]].doc.rev,
                         mediaPath |-> catalog[keys[i]].doc.mediaPath]]

\* Every entry is stat'ed, whatever its path.
isStattedAlways(mediaPath) == TRUE

\* Line 80: the entry's path is under the scan root, so the file is stat'ed.
isStatted(mediaPath) == startsWith(mediaPath, ScanRoot)

rowOf(id) == CHOOSE r \in {sweep.rows[i] : i \in DOMAIN sweep.rows} : r.id = id

\* The delete carries the entry's current revision, not the listed one.
deleteItemLatest(r) == [id |-> r.id, rev |-> catalog[r.id].doc.rev]

\* Lines 91-95: the delete item pushed for a row.
deleteItem(r) == [id |-> r.id, rev |-> r.rev]

\* The cursor is the page's first id, not its last.
afterPageFirstRow(rows) ==
    IF Len(rows) < limit
    THEN [sweep EXCEPT !.pc = "done", !.rows = <<>>, !.pending = {}, !.deleted = {}]
    ELSE [sweep EXCEPT !.pc = "list", !.startkey = rows[1].id,
                       !.rows = <<>>, !.pending = {}, !.deleted = {}]

\* The step after a page's delete request: lines 104-107.
afterPage(rows) ==
    IF Len(rows) < limit
    THEN [sweep EXCEPT !.pc = "done", !.rows = <<>>, !.pending = {}, !.deleted = {}]
    ELSE [sweep EXCEPT !.pc = "list", !.startkey = rows[Len(rows)].id,
                       !.rows = <<>>, !.pending = {}, !.deleted = {}]

\* Lines 68-80 and 91-95: a page is listed (ok = FALSE: allDocs rejects and the
\* pass ends); each row's callback runs up to its first await, so the rows that
\* are not stat'ed are pushed at once.
SweepList(ok) ==
    /\ sweep.pc = "list"
    /\ IF ~ok
       THEN sweep' = [sweep EXCEPT !.pc = "failed"]
       ELSE LET rows == allDocs(sweep.startkey)
                all == {rows[i] : i \in DOMAIN rows}
            IN  sweep' = [sweep EXCEPT
                    !.pc = "stat",
                    !.rows = rows,
                    !.listed = sweep.listed \cup {r.id : r \in all},
                    !.requests = 0,
                    !.pending = {r.id : r \in {x \in all : isStatted(x.mediaPath)}},
                    !.deleted = {deleteItem(r) : r \in {x \in all : ~isStatted(x.mediaPath)}}]
    /\ UNCHANGED <<catalog, metadata, queue, emitted, active, started, last, fs, cinfRun>>

\* Any stat that resolves keeps the entry (isFile() not consulted).
keepsEntryAnyStat(res) == res # "missing"

\* Lines 82-85: the entry is kept when the stat resolves with a regular file.
keepsEntry(res) == res = "file"

\* Lines 82-95: statAsync settles for one row of the page: it resolves with a
\* regular file ("file") or with something else ("dir"), or rejects ("missing").
SweepStat(id, res) ==
    /\ sweep.pc = "stat"
    /\ id \in sweep.pending
    /\ LET r == rowOf(id)
       IN  sweep' = [sweep EXCEPT
               !.pending = sweep.pending \ {id},
               !.deleted = IF keepsEntry(res) THEN sweep.deleted
                           ELSE sweep.deleted \cup {deleteItem(r)},
               !.sawFile = IF res = "file" THEN sweep.sawFile \cup {id}
                           ELSE sweep.sawFile,
               !.sawOther = IF res = "file" THEN sweep.sawOther
                            ELSE sweep.sawOther \cup {id}]
    /\ UNCHANGED <<catalog, metadata, queue, emitted, active, started, last, fs, cinfRun>>

\* The store applies the items of a bulkDocs request one by one; an item whose
\* revision is not current is rejected alone.
RECURSIVE bulkApplied(_, _)
bulkApplied(cat, items) ==
    IF items = {} THEN cat
    ELSE LET it == CHOOSE x \in items : TRUE
             ok == cat[it.id].exists /\ cat[it.id].doc.rev = it.rev
         IN  bulkApplied(IF ok THEN afterRemove(cat, it.id) ELSE cat, items \ {it})

\* The delete request does not wait for the page's stats.
SweepBulkEarly(ok) ==
    /\ sweep.pc = "stat"
    /\ IF ok
       THEN /\ catalog' = bulkApplied(catalog, sweep.deleted)
            /\ sweep' = [afterPage(sweep.rows) EXCEPT !.requests = sweep.requests + 1]
       ELSE /\ catalog' = catalog
            /\ sweep' = [sweep EXCEPT !.pc = "failed", !.rows = <<>>, !.deleted = {},
                                      !.requests = sweep.requests + 1]
    /\ UNCHANGED <<metadata, queue, emitted, active, started, last, fs, cinfRun>>

\* Lines 100-107: Promise.all has settled; db.bulkDocs(deleted) settles
\* (ok = FALSE: it rejects and the pass ends), then the cursor advances.
SweepBulk(ok) ==
    /\ sweep.pc = "stat"
    /\ sweep.pending = {}
    /\ IF ok
       THEN /\ catalog' = bulkApplied(catalog, sweep.deleted)
            /\ sweep' = [afterPage(sweep.rows) EXCEPT !.requests = sweep.requests + 1]
       ELSE /\ catalog' = catalog
            /\ sweep' = [sweep EXCEPT !.pc = "failed", !.rows = <<>>, !.deleted = {},
                                      !.requests = sweep.requests + 1]
    /\ UNCHANGED <<metadata, queue, emitted, active, started, last, fs, cinfRun>>

\* ------------------------------------------------------------ generateCinf
\* A stream of ffprobe's json.streams: the fields generateCinf reads; "" is a
\* field that is absent.
StreamKinds ==
    {[codec_type |-> "audio", codec_time_base |-> "1/48000", time_base |-> "1/48000",
      avg_frame_rate |-> "", r_frame_rate |-> ""],
     [codec_type |-> "audio", codec_time_base |-> "", time_base |-> "",
      avg_frame_rate |-> "", r_frame_rate |-> ""],
     [codec_type |-> "video", codec_time_base |-> "1/50", time_base |-> "1/90000",
      avg_frame_rate |-> "25/1", r_frame_rate |-> "50/1"],
     [codec_type |-> "video", codec_time_base |-> "", time_base |-> "1/90000",
      avg_frame_rate |-> "", r_frame_rate |-> ""],
     [codec_type |-> "video", codec_time_base |-> "0/1", time_base |-> "1/25",
      avg_frame_rate |-> "25/1", r_frame_rate |-> "25/1"],
     [codec_type |-> "data", codec_time_base |-> "", time_base |-> "1/90000",
      avg_frame_rate |-> "", r_frame_rate |-> ""]}

\* generateInfo rejects a list without a first stream (line 217) before
\* generateCinf is called.
StreamLists == UNION {[1..n -> StreamKinds] : n \in 1..MaxStreams}

\* a || b on strings.
orElse(a, b) == IF a = "" THEN b ELSE a

\* String.prototype.split('/') of the rationals above, as numbers.
split(str) ==
    CASE str = "0/1" -> <<0, 1>>
      [] str = "1/25" -> <<1, 25>>
      [] str = "25/1" -> <<25, 1>>
      [] str = "50/1" -> <<50, 1>>
      [] str = "1/50" -> <<1, 50>>
      [] str = "1/48000" -> <<1, 48000>>
      [] str = "1/90000" -> <<1, 90000>>
      [] OTHER -> <<str>>

\* Lines 248-255: the timebase of a motion video stream.
videoTimebase(stream) ==
    LET fr == split(orElse(stream.avg_frame_rate, orElse(stream.r_frame_rate, "")))
    IN  IF Len(fr) = 2 THEN <<fr[2], fr[1]>>
        ELSE split(orElse(stream.time_base, "1/25"))

\* Lines 241-258: one iteration of the loop over json.streams; a local that is
\* null is <<>>.
CinfStream ==
    /\ cinfRun.pos \in 1..Len(cinfRun.streams)
    /\ LET stream == cinfRun.streams[cinfRun.pos]
           next == [cinfRun EXCEPT !.pos = cinfRun.pos + 1]
       IN  cinfRun' =
             IF stream.codec_type = "audio"
             THEN IF cinfRun.audioTb = <<>>
                  THEN [next EXCEPT !.audioTb = split(orElse(stream.time_base, "1/25"))]
                  ELSE next
             ELSE IF stream.codec_type = "video"
             THEN IF stream.codec_time_base = "0/1"
                  THEN IF cinfRun.stillTb = <<>>
                       THEN [next EXCEPT !.stillTb = <<0, 1>>]
                       ELSE next
                  ELSE IF cinfRun.videoTb = <<>>
                       THEN [next EXCEPT !.videoTb = videoTimebase(stream)]
                       ELSE next
             ELSE next
    /\ UNCHANGED <<catalog, metadata, queue, emitted, active, started, last, sweep, fs>>

\* STILL whenever a still stream was found, audio or not.
classifyStillFirst(videoTb, stillTb, audioTb) ==
    IF videoTb # <<>> THEN [type |-> "MOVIE", tb |-> videoTb]
    ELSE IF stillTb # <<>> THEN [type |-> "STILL", tb |-> stillTb]
    ELSE [type |-> "AUDIO", tb |-> IF audioTb = <<>> THEN <<0, 1>> ELSE audioTb]

\* Lines 260-271: type and tb from the three locals.
classify(videoTb, stillTb, audioTb) ==
    IF videoTb # <<>> THEN [type |-> "MOVIE", tb |-> videoTb]
    ELSE IF stillTb # <<>> /\ audioTb = <<>> THEN [type |-> "STILL", tb |-> stillTb]
    ELSE [type |-> "AUDIO", tb |-> IF audioTb = <<>> THEN <<0, 1>> ELSE audioTb]

\* The loop has ended: lines 260-271.
CinfClassify ==
    /\ cinfRun.pos = Len(cinfRun.streams) + 1
    /\ cinfRun.type = ""
    /\ LET c == classify(cinfRun.videoTb, cinfRun.stillTb, cinfRun.audioTb)
       IN  cinfRun' = [cinfRun EXCEPT !.type = c.type, !.tb = c.tb]
    /\ UNCHANGED <<catalog, metadata, queue, emitted, active, started, last, sweep, fs>>

\* ----------------------------------------------------------- specification
\* The files are not tracked: the watcher reports any of EventInputs.
WatcherNext == \E e \in EventInputs : WatcherEmit(e) /\ UNCHANGED fs

\* The event loop runs the settled callbacks of the handler.
EngineNext ==
    \/ Subscribe
    \/ \E h \in active, ok \in BOOLEAN : ScanGet(h, ok)
    \/ \E h \in active, res \in {"ok", "fail", "fo_fail"} : InfoDone(h, res)
    \/ \E h \in active, res \in {"ok", "fail_exec", "fail_read", "fail_unlink"} :
            ThumbDone(h, res)
    \/ \E h \in active, ok \in BOOLEAN : ScanPut(h, ok)
    \/ \E h \in active, ok \in BOOLEAN : RemoveGet(h, ok)
    \/ \E h \in active, ok \in BOOLEAN : RemoveDoc(h, ok)

SweepNext ==
    \/ \E ok \in BOOLEAN : SweepList(ok)
    \/ \E id \in Ids, res \in {"file", "dir", "missing"} : SweepStat(id, res)
    \/ \E ok \in BOOLEAN : SweepBulk(ok)

Next == WatcherNext \/ EngineNext \/ SweepNext

\* The whole system.
Spec == Init /\ [][Next]_vars

\* The event stream with every outcome of the probes and of the store, while
\* the sweep has not yet listed its first page.
InitEngine == Init /\ catalog["B"].exists /\ catalog["C"].exists

EngineSpecNext == WatcherNext \/ EngineNext

EngineSpec == InitEngine /\ [][EngineSpecNext]_vars

\* The event stream under the configuration with the most external calls
\* (metadata with fieldOrder) and a catalog that holds every entry, the event
\* loop running every handler that can step: each store call and each external
\* process eventually settles.
InitFair == InitEngine /\ metadata = "fo" /\ catalog["A"].exists

FairEngineSpec == InitFair /\ [][EngineSpecNext]_vars /\ WF_vars(EngineNext)

\* The handler when both external tools succeed.
ProbesOkEngineNext ==
    \/ Subscribe
    \/ \E h \in active, ok \in BOOLEAN : ScanGet(h, ok)
    \/ \E h \in active : InfoDone(h, "ok")
    \/ \E h \in active : ThumbDone(h, "ok")
    \/ \E h \in active, ok \in BOOLEAN : ScanPut(h, ok)
    \/ \E h \in active, ok \in BOOLEAN : RemoveGet(h, ok)
    \/ \E h \in active, ok \in BOOLEAN : RemoveDoc(h, ok)

\* The sweep racing with the event stream, for the deployed configuration and a
\* catalog that spans several pages.
InitRace == Init /\ metadata = "fo" /\ catalog["B"].exists /\ catalog["C"].exists

RaceNext == WatcherNext \/ ProbesOkEngineNext \/ SweepNext

RaceSpec == InitRace /\ [][RaceNext]_vars

\* The sweep alone on every start-up catalog, under the assumption that each
\* store call and each stat eventually settles.
SweepSpec == Init /\ [][SweepNext]_vars /\ WF_vars(SweepNext)

\* ---------------------------------------------------------- tracked files
\* The files the specification below tracks, and the stats a file can have there.
TrackedPaths == {P1, P3}
FileStats == {<<1, 0>>, <<1, 1>>}

\* No file at the path.
NoFile == <<>>

isFile(p) == p \in DOMAIN fs.files /\ fs.files[p] # NoFile

\* statAsync(doc.mediaPath) and stat.isFile() of line 82-83 on the tracked files.
statOf(p) == IF isFile(p) THEN "file" ELSE "missing"

\* A change the watcher will report fits the events of the behaviour.
canChange(p) ==
    p \in fs.dirty \/ emitted + Cardinality(fs.dirty) < MaxEvents

\* A file is created or rewritten; the watcher has yet to report it.
FsWrite(p, st) ==
    /\ canChange(p)
    /\ fs.files[p] # st
    /\ fs' = [fs EXCEPT !.files[p] = st, !.dirty = fs.dirty \cup {p}]
    /\ UNCHANGED <<catalog, metadata, queue, emitted, active, started, last, sweep, cinfRun>>

\* A file is deleted; the watcher has yet to report it.
FsUnlink(p) ==
    /\ canChange(p)
    /\ isFile(p)
    /\ fs' = [fs EXCEPT !.files[p] = NoFile, !.dirty = fs.dirty \cup {p}]
    /\ UNCHANGED <<catalog, metadata, queue, emitted, active, started, last, sweep, cinfRun>>

\* Lines 36-38 with alwaysStat: the watcher reports the file as it is now: 'add'
\* or 'change' with its stat, 'unlink' for a file it had reported, nothing for
\* a file that came and went unreported.
WatcherReport(p) ==
    /\ p \in fs.dirty
    /\ IF isFile(p)
       THEN /\ WatcherEmit([path |-> p, kind |-> "file", size |-> fs.files[p][1],
                            mtime |-> fs.files[p][2], seq |-> 0])
            /\ fs' = [fs EXCEPT !.dirty = fs.dirty \ {p}, !.known = fs.known \cup {p}]
       ELSE IF p \in fs.known
       THEN /\ WatcherEmit([path |-> p, kind |-> "unlink", size |-> 0, mtime |-> 0,
                            seq |-> 0])
            /\ fs' = [fs EXCEPT !.dirty = fs.dirty \ {p}, !.known = fs.known \ {p}]
       ELSE /\ fs' = [fs EXCEPT !.dirty = fs.dirty \ {p}]
            /\ UNCHANGED <<catalog, metadata, queue, emitted, active, started, last,
                           sweep, cinfRun>>

\* The sweep and the event stream on tracked files, with no id collision
\* (TrackedPaths have distinct ids), every probe succeeding and the store
\* failing only by revision conflicts. At start-up the watcher has every
\* existing file to report (chokidar's initial 'add').
InitTracked ==
    /\ catalog \in [Ids -> UNION {PriorEntries(id) : id \in Ids}]
    /\ \A id \in Ids : catalog[id] \in PriorEntries(id)
    /\ metadata = "fo"
    /\ queue = <<>>
    /\ emitted = 0
    /\ active = {}
    /\ started = 0
    /\ last = NoHandler
    /\ sweep = NoSweep
    /\ \E files \in [TrackedPaths -> FileStats \cup {NoFile}] :
            fs = [files |-> files,
                  dirty |-> {p \in TrackedPaths : files[p] # NoFile},
                  known |-> {}]
    /\ cinfRun = NoCinfRun

TrackedNext ==
    \/ \E p \in TrackedPaths, st \in FileStats : FsWrite(p, st)
    \/ \E p \in TrackedPaths : FsUnlink(p)
    \/ \E p \in TrackedPaths : WatcherReport(p)
    \/ Subscribe
    \/ \E h \in active : ScanGet(h, TRUE)
    \/ \E h \in active : InfoDone(h, "ok")
    \/ \E h \in active : ThumbDone(h, "ok")
    \/ \E h \in active : ScanPut(h, TRUE)
    \/ \E h \in active : RemoveGet(h, TRUE)
    \/ \E h \in active : RemoveDoc(h, TRUE)
    \/ SweepList(TRUE)
    \/ \E id \in Ids : SweepStat(id, statOf(rowOf(id).mediaPath))
    \/ SweepBulk(TRUE)

TrackedSpec == InitTracked /\ [][TrackedNext]_vars

\* generateCinf alone, on every stream list.
InitCinf ==
    /\ catalog = [id \in Ids |-> Absent(0)]
    /\ metadata = "null"
    /\ queue = <<>>
    /\ emitted = 0
    /\ active = {}
    /\ started = 0
    /\ last = NoHandler
    /\ sweep = NoSweep
    /\ fs = Unwatched
    /\ cinfRun \in {[NoCinfRun EXCEPT !.streams = l, !.pos = 1] : l \in StreamLists}

CinfNext == CinfStream \/ CinfClassify

CinfSpec == InitCinf /\ [][CinfNext]_vars

\* ------------------------------------------------------------------ claims
\* A handler completes in this step.
completes == last'.seq # last.seq

\* The completed handler ran scanFile past line 117.
scanned(h) == h.kind = "file" /\ h.outcome # "ignored"

underScanRoot(mediaPath) ==
    Len(mediaPath) >= Len(ScanRoot) /\ SubSeq(mediaPath, 1, Len(ScanRoot)) = ScanRoot

\* C1: an add/change event whose path, size and mtime are those of the entry
\* its get fetched completes as unchanged: no probe is invoked, no write is
\* issued, and the step leaves the catalog as it was.
C1_Idempotence ==
    [][(/\ completes
        /\ scanned(last')
        /\ last'.fetched.mediaPath = last'.path
        /\ last'.fetched.mediaSize = last'.size
        /\ last'.fetched.mediaTime = last'.mtime)
       => /\ last'.fetched = catalog[getId(last'.path)].doc
          /\ last'.outcome = "unchanged"
          /\ last'.probes = {}
          /\ last'.writes = 0
          /\ catalog' = catalog]_vars

C1_Witness ==
    /\ last.outcome = "unchanged"
    /\ last.fetched.mediaPath = last.path
    /\ last.fetched.rev >= 1

\* C2: an add/change event whose id resolves to an entry stored for another,
\* non-empty path is skipped without probe or write and leaves the catalog as it
\* was; and no step changes the mediaPath of an existing entry.
C2_CollisionSafety ==
    [][/\ (/\ completes
           /\ scanned(last')
           /\ last'.fetched.mediaPath # NoPath
           /\ last'.fetched.mediaPath # last'.path)
          => /\ last'.outcome = "skipped"
             /\ last'.probes = {}
             /\ last'.writes = 0
             /\ catalog' = catalog
       /\ \A id \in Ids :
            (catalog[id].exists /\ catalog'[id].exists)
            => catalog'[id].doc.mediaPath = catalog[id].doc.mediaPath]_vars

C2_Witness ==
    /\ last.outcome = "skipped"
    /\ last.path = P2
    /\ catalog["A"].exists
    /\ catalog["A"].doc.mediaPath = P1

untouched(id) == catalog[id].exists /\ catalog[id] \in PriorEntries(id)

\* C4: when a pass has completed, an entry under the scan root that no handler
\* wrote and that is still there was found to be a regular file by a stat of the
\* pass (so an entry whose every stat failed or found no regular file is gone);
\* and the sweep deletes an entry under the scan root only after a stat of it
\* failed or found no regular file.
C4_SweepConvergence ==
    [][/\ sweep'.pc = "done" =>
            \A id \in Ids :
                (untouched(id)' /\ underScanRoot(catalog'[id].doc.mediaPath))
                => id \in sweep'.sawFile
       /\ \A id \in Ids :
            (/\ catalog[id].exists
             /\ ~catalog'[id].exists
             /\ ~completes
             /\ underScanRoot(catalog[id].doc.mediaPath))
            => id \in sweep.sawOther]_vars

C4_Witness ==
    /\ sweep.pc = "done"
    /\ last.seq = 0
    /\ "A" \in sweep.sawOther /\ "A" \notin sweep.sawFile /\ ~catalog["A"].exists
    /\ "B" \in sweep.sawFile /\ "B" \notin sweep.sawOther /\ catalog["B"].exists

\* C5 as claimed: a scan whose info probe failed and whose thumbnail probe
\* succeeded issues one write of the event's stat fields, this run's thumbnail
\* fields and the fetched cinf and mediainfo; a scan whose thumbnail probe failed
\* and whose info probe succeeded issues one write of this run's cinf and the
\* fetched thumbnail fields.
C5_PartialFailure ==
    last.outcome \in {"written", "put_failed"} =>
        /\ (last.info = "failed" /\ last.thumb = "ok")
           => /\ last.writes = 1
              /\ last.doc.mediaPath = last.path
              /\ last.doc.mediaSize = last.size
              /\ last.doc.mediaTime = last.mtime
              /\ last.doc.thumbTime = last.seq
              /\ last.doc.tinf = last.seq
              /\ last.doc.thumb = last.seq
              /\ last.doc.cinf = last.fetched.cinf
              /\ last.doc.mediainfo = last.fetched.mediainfo
        /\ (last.thumb = "failed" /\ last.info = "ok")
           => /\ last.writes = 1
              /\ last.doc.mediaPath = last.path
              /\ last.doc.mediaSize = last.size
              /\ last.doc.mediaTime = last.mtime
              /\ last.doc.cinf = last.seq
              /\ last.doc.thumbTime = last.fetched.thumbTime
              /\ last.doc.tinf = last.fetched.tinf
              /\ last.doc.thumb = last.fetched.thumb

\* C6: whatever fails while an event is processed, its handler completes, and
\* every event the watcher emitted is eventually processed.
C6_FailureIsolation ==
    \A n \in 1..MaxEvents : (emitted >= n) ~> (last.seq >= n)

C6_Witness ==
    /\ last.outcome \in FailureOutcomes
    /\ \E h \in active : h.seq = last.seq + 1 /\ h.pc # "errored"

\* C7: at most one handler is between its start and its completion, it is the
\* handler of the event started last, every earlier event has completed, and the
\* buffered events are the later ones, in the order the watcher emitted them.
C7_StrictSerialization ==
    /\ Cardinality(active) <= 1
    /\ \A h \in active : h.seq = started /\ last.seq = started - 1
    /\ active = {} => last.seq = started
    /\ \A i \in DOMAIN queue : queue[i].seq = started + i
    /\ emitted = started + Len(queue)

C7_Witness ==
    /\ \E h \in active : h.pc = "probing" /\ h.seq = 1
    /\ Len(queue) >= 1
    /\ queue[1].path = (CHOOSE h \in active : TRUE).path

\* The fields of an entry that a scan regenerates all carry the same generation.
sameRun(doc) ==
    /\ doc.cinf = doc.thumb
    /\ doc.tinf = doc.thumb
    /\ doc.thumbTime = doc.thumb
    /\ metadata # "null" => doc.mediainfo = doc.thumb

removalStep ==
    (completes /\ last'.kind = "unlink")
    => /\ last'.outcome = "removed"
          => /\ ~catalog'[getId(last'.path)].exists
             /\ \A id \in Ids \ {getId(last'.path)} : catalog'[id] = catalog[id]
             /\ catalog[getId(last'.path)].exists
             /\ last'.fetched.rev = catalog[getId(last'.path)].doc.rev
       /\ last'.outcome # "removed" => catalog' = catalog

\* The last two events processed were an add/change and then a removal of the
\* same path.
addThenRemoved == last.kind = "unlink" /\ last.prevKind = "file" /\ last.prevPath = last.path

C10_OptimisticConcurrency ==
    [][\A id \in Ids :
        catalog'[id] # catalog[id]
        => IF completes
           THEN /\ getId(last'.path) = id
                /\ last'.doc.rev = last'.fetched.rev
                /\ last'.fetched.rev =
                       IF catalog[id].exists THEN catalog[id].doc.rev ELSE 0
           ELSE /\ catalog[id].exists
                /\ ~catalog'[id].exists
                /\ \E i \in DOMAIN sweep.rows :
                      /\ sweep.rows[i].id = id
                      /\ sweep.rows[i].rev = catalog[id].doc.rev]_vars

\* The sweep deleted the entry after the handler's get: the handler's put was
\* rejected and the entry stays deleted.
C10_Witness ==
    /\ last.outcome = "put_failed"
    /\ last.fetched.rev = 1
    /\ ~catalog[getId(last.path)].exists
    /\ catalog[getId(last.path)].doc.rev = 2

\* The streams of the list that are audio, motion video and still video.
audioAt(st) == {i \in DOMAIN st : st[i].codec_type = "audio"}
motionAt(st) ==
    {i \in DOMAIN st : st[i].codec_type = "video" /\ st[i].codec_time_base # "0/1"}
stillAt(st) ==
    {i \in DOMAIN st : st[i].codec_type = "video" /\ st[i].codec_time_base = "0/1"}
firstOf(S) == CHOOSE i \in S : \A j \in S : i <= j

\* C11: for every stream list, the type is MOVIE when there is a motion video
\* stream (timebase 1/25 when the first such stream has frame rate 25/1);
\* otherwise STILL with timebase 0/1 when there is a still stream and no audio
\* stream; otherwise AUDIO with the first audio stream's timebase, or 0/1 when
\* there is no audio stream.
C11_TypeClassification ==
    cinfRun.type # "" =>
        LET st == cinfRun.streams
        IN  IF motionAt(st) # {}
            THEN /\ cinfRun.type = "MOVIE"
                 /\ st[firstOf(motionAt(st))].avg_frame_rate = "25/1"
                    => cinfRun.tb = <<1, 25>>
            ELSE IF stillAt(st) # {} /\ audioAt(st) = {}
            THEN cinfRun.type = "STILL" /\ cinfRun.tb = <<0, 1>>
            ELSE /\ cinfRun.type = "AUDIO"
                 /\ cinfRun.tb =
                      IF audioAt(st) = {} THEN <<0, 1>>
                      ELSE LET a == st[firstOf(audioAt(st))]
                           IN  IF a.time_base = "" THEN <<1, 25>>
                               ELSE split(a.time_base)

\* A still video stream and an audio stream: AUDIO.
C11_Witness ==
    /\ cinfRun.type = "AUDIO"
    /\ stillAt(cinfRun.streams) # {}
    /\ audioAt(cinfRun.streams) # {}
    /\ cinfRun.tb = <<1, 48000>>

\* The handler completing in this step fetched the entry the store holds for
\* its id (its get did not reject).
fetchedStored ==
    /\ dbHas(getId(last'.path))
    /\ last'.fetched = catalog[getId(last'.path)].doc

\* C12 as claimed: when the scan that completed last wrote an entry although a
\* probe of it had failed, the next add/change event for the same path runs both
\* probes again, whatever its size and mtime.
C12_RetryAfterProbeFailure ==
    [][(/\ completes
        /\ last.outcome = "written"
        /\ (last.info # "ok" \/ last.thumb # "ok")
        /\ scanned(last')
        /\ last'.path = last.path
        /\ fetchedStored)
       => {"info", "thumb"} \subseteq last'.probes]_vars

\* A probe of the handler has been started and has not settled.
probeRunning(h) == h.info = "running" \/ h.thumb = "running"

\* C15: a handler that passed the guards has started both probes before either
\* settles and has issued no write while they run; it completes by one write,
\* issued when both probes have settled; and every add/change event that is not
\* a directory, not a collision and not unchanged completes that way.
C15_JoinBeforeWrite ==
    [][/\ \A h \in active' :
            h.pc = "probing" =>
                /\ {"info", "thumb"} \subseteq h.probes
                /\ h.info # "idle" /\ h.thumb # "idle"
                /\ h.writes = 0
       /\ \A h \in active :
            (h.pc = "get" /\ h \notin active' /\ ~completes)
            => \E h2 \in active' : h2.info = "running" /\ h2.thumb = "running"
       /\ (completes /\ last'.writes > 0 /\ last'.kind = "file")
            => /\ last'.writes = 1
               /\ ~probeRunning(last')
               /\ \E h \in active : h.seq = last'.seq /\ ~probeRunning(h)
       /\ (/\ completes
           /\ scanned(last')
           /\ ~isCollision(last'.fetched, last'.path)
           /\ ~isUnchanged(last'.fetched, last'.size, last'.mtime))
            => /\ last'.outcome \in {"written", "put_failed"}
               /\ last'.writes = 1
               /\ last'.info \in {"ok", "failed", "fo_failed"}
               /\ last'.thumb \in {"ok", "failed"}]_vars

\* A scan of a new file wrote its entry, once, after its thumbnail probe had
\* failed and its info probe had succeeded.
C15_Witness ==
    /\ last.outcome = "written"
    /\ last.writes = 1
    /\ last.thumb = "failed"
    /\ last.info = "ok"
    /\ catalog[getId(last.path)].doc.cinfTT = NoRun

\* C16 as claimed: a removal that deletes an entry was a removal event for the
\* path stored in that entry.
C16_RemovalOfOwnPathOnly ==
    [][(completes /\ last'.kind = "unlink" /\ last'.outcome = "removed")
       => last'.fetched.mediaPath = last'.path]_vars

\* C17 as claimed: an add event for a file (non-empty id) that has no entry runs
\* both probes and issues the write of the entry, whatever the file's stat.
C17_FirstScanCreates ==
    [][(/\ completes
        /\ scanned(last')
        /\ ~dbHas(getId(last'.path))
        /\ last'.fetched = Placeholder)
       => /\ {"info", "thumb"} \subseteq last'.probes
          /\ last'.writes = 1]_vars

\* C18 as claimed: the entry written by a scan whose probes both succeeded has,
\* inside its cinf, the thumbTime that the entry stores.
C18_CinfThumbTime ==
    [][(/\ completes
        /\ last'.outcome = "written"
        /\ last'.info = "ok"
        /\ last'.thumb = "ok")
       => LET doc == catalog'[getId(last'.path)].doc
          IN  doc.cinfTT = doc.thumbTime]_vars

\* C19 as claimed: with structured metadata enabled, the entry a scan writes has
\* its cinf and its mediainfo both from this run or both as fetched.
C19_CinfMediainfoPair ==
    [][(completes /\ last'.outcome = "written" /\ metadata # "null")
       => LET doc == catalog'[getId(last'.path)].doc
          IN  \/ doc.cinf = last'.seq /\ doc.mediainfo = last'.seq
              \/ doc.cinf = last'.fetched.cinf /\ doc.mediainfo = last'.fetched.mediainfo]_vars

\* Position of a cursor in key order; the undefined cursor comes first.
cursorRank(key) == IF key = "" THEN 0 ELSE Rank(key)

\* The pass ends its page in this step: the delete request has settled.
pageEnds == sweep.pc = "stat" /\ sweep'.pc # "stat"

\* C13: the sweep terminates; it stops exactly after a page of fewer than
\* `limit` rows, and every iteration that does not stop moves the cursor to a
\* strictly greater id, which the next page lists first if it is still there.
C13_SweepTermination ==
    /\ <>(sweep.pc \in {"done", "failed"})
    /\ [][/\ (pageEnds /\ sweep'.pc = "done") => Len(sweep.rows) < limit
          /\ (pageEnds /\ sweep'.pc = "list")
                => /\ Len(sweep.rows) = limit
                   /\ cursorRank(sweep'.startkey) > cursorRank(sweep.startkey)
          /\ (sweep.pc = "list" /\ sweep'.pc = "stat" /\ dbHas(sweep.startkey))
                => sweep'.rows[1].id = sweep.startkey
          /\ sweep.pc \in {"done", "failed"} => sweep' = sweep]_vars

\* The pass has ended after three pages; nothing was deleted in the first, and
\* its cursor entry was listed again by the second.
C13_Witness ==
    /\ sweep.pc = "done"
    /\ sweep.startkey = "C"
    /\ sweep.sawFile = {"A", "B"}
    /\ untouched("A") /\ untouched("B")
    /\ ~catalog["C"].exists

\* The rows of a page are in strictly increasing key order, from the cursor on.
inOrderFrom(rows, startkey) ==
    /\ \A i \in DOMAIN rows : cursorRank(rows[i].id) >= cursorRank(startkey)
    /\ \A i, j \in DOMAIN rows : i < j => Rank(rows[i].id) < Rank(rows[j].id)

\* C14: each page is listed in key order from the cursor on, and the cursor is the
\* last id of the page before; each page has exactly one batched delete request,
\* issued when every stat of the page has settled and before the next page is
\* listed, and the sweep changes the catalog in that step only; and when the pass
\* has completed, every entry that has been in the catalog since start-up has
\* been listed by a page.
C14_SweepCoverageBatching ==
    [][/\ (sweep.pc = "list" /\ sweep'.pc = "stat")
            => /\ inOrderFrom(sweep'.rows, sweep.startkey)
               /\ sweep.startkey # "" => sweep.requests = 1
       /\ (pageEnds /\ sweep'.pc = "list")
            => sweep'.startkey = sweep.rows[Len(sweep.rows)].id
       /\ sweep'.requests = sweep.requests + 1
            => /\ sweep.pc = "stat"
               /\ sweep.requests = 0
               /\ sweep.pending = {}
               /\ \A i \in DOMAIN sweep.rows :
                    underScanRoot(sweep.rows[i].mediaPath)
                    => sweep.rows[i].id \in sweep.sawFile \cup sweep.sawOther
       /\ pageEnds => sweep'.requests = 1
       /\ (catalog' # catalog /\ ~completes) => sweep'.requests = sweep.requests + 1
       /\ sweep'.pc = "done"
            => \A id \in Ids :
                 (catalog'[id].exists /\ catalog'[id].orig) => id \in sweep'.listed]_vars

\* The first page's delete request removed its first entry, and the pass went
\* on to list every other entry.
C14_Witness ==
    /\ sweep.pc = "done"
    /\ sweep.listed = Ids
    /\ "A" \in sweep.sawOther /\ ~catalog["A"].exists /\ last.seq = 0
    /\ catalog["B"].exists /\ catalog["B"].orig

\* The sweep has finished, every change of a file has been reported and every
\* reported event has been processed.
quiescent ==
    /\ sweep.pc = "done"
    /\ fs.dirty = {}
    /\ queue = <<>>
    /\ active = {}

\* C20 as claimed: in a quiescent state, every tracked file that exists and that
\* the watcher has reported has an entry whose mediaSize and mediaTime are those
\* of the file, which are those of the last event delivered for it.
C20_QuiescentConsistency ==
    quiescent =>
        \A p \in TrackedPaths :
            (isFile(p) /\ p \in fs.known)
            => /\ catalog[getId(p)].exists
               /\ catalog[getId(p)].doc.mediaSize = fs.files[p][1]
               /\ catalog[getId(p)].doc.mediaTime = fs.files[p][2]

====
